---- MODULE Spec2Model ----
(***************************************************************************)
(* A model of lib/mprune.js: the pipeline                                  *)
(*     MantaFinder -> MpruneTransformPath -> MprunePolicyTwiceMonthly      *)
(*                 -> MpruneTargetDryRun | MpruneTargetRemover             *)
(* driven by MpruneOperation, with the twice-monthly policy (processMonth, *)
(* dayIsComplete) computed as the code computes it.                        *)
(***************************************************************************)
EXTENDS Integers, Sequences, FiniteSets, TLC

VARIABLES
    p_name,         \* the policy name the caller asked for, as given
    p_policy,       \* args.p_policy: what policyForName returned for it
    mp_dryrun,      \* MpruneOperation.mp_dryrun: selects the target
    mpm_expect,     \* MprunePolicyTwiceMonthly.mpm_expect: list of regexps
    found,          \* the paths the finder has yielded so far, in order
    finderState,    \* "running" | "ended" | "failed"
    xformQ,         \* objects written to mp_xform and not yet transformed
    xformEnded,     \* mp_xform has seen end() and ended its readable side
    policyQ,        \* objects written to mp_policy and not yet transformed
    policyPiped,    \* mp_xform is (still) piped into mp_policy
    ingested,       \* the objects handed to mp_policy._transform, in order
    mpm_root,       \* MprunePolicyTwiceMonthly.mpm_root: year -> month -> day -> objects
    policyState,    \* "ingesting" | "flushed" | "failed" | "threw"
    processed,      \* per processMonth call: its label and its locals first, second, skip
    emitted,        \* every record mp_policy has pushed, in order
    warns,          \* every 'warn' the operation has re-emitted, in order
    targetPos,      \* how many of `emitted` the target's _write has handled
    targetPiped,    \* mp_policy is (still) piped into mp_target
    targetState,    \* "open" | "finished" | "failed" | "threw"
    printed,        \* the lines the dry-run target has printed
    removed,        \* the paths removed from storage
    errors          \* every 'error' the operation has emitted to its caller, in order

vars == <<p_name, p_policy, mp_dryrun, mpm_expect, found, finderState, xformQ, xformEnded, policyQ,
          policyPiped, ingested, mpm_root, policyState, processed, emitted, warns,
          targetPos, targetPiped, targetState, printed, removed, errors>>

(***************************************************************************)
(* Bounds and input domains.                                               *)
(***************************************************************************)
\* how many objects the finder yields in one run
MaxRecords == 3

\* how many objects the bucket tree of a decision-phase run holds
MaxTreeRecords == 3

\* the 'highWaterMark' of every stream of the pipeline
highWaterMark == 16

\* the dated directories an object may live under: <<year, month, day>>
Years == {2020}
MonthChoices == {7, 8}
DayChoices == {1, 5, 14, 15, 20, 31}
Basenames == {"a.log", "b.log"}

\* the dated directories and basenames the finder of a whole run may come upon
PipeDirs == {<<2020, 7, 1>>, <<2020, 7, 15>>, <<2020, 7, 31>>, <<2021, 8, 1>>}
PipeBasenames == {"a.log"}

\* a run over more objects than two stages buffer between them
MaxFlowRecords == 33
FlowDirs == {<<2020, 7, 1>>}

\* the regular expressions a caller may expect
ReA == "a\\.log"
ReB == "b\\.log"
ReAny == "\\.log$"
ExpectChoices == {<<>>, <<ReA>>, <<ReA, ReA>>, <<ReA, ReB>>, <<ReAny, ReA>>}
PipeExpectChoices == {<<>>, <<ReB>>}

\* RegExp.prototype.test for the expressions above (none has the g or y flag)
RegexpTest(re, s) ==
    CASE re = ReA -> s = "a.log"
      [] re = ReB -> s = "b.log"
      [] re = ReAny -> s \in {"a.log", "b.log"}
      [] OTHER -> FALSE

\* the value null
Null == [isnull |-> TRUE]

\* a path with no dated directory in it
NoDir == <<>>

(***************************************************************************)
(* MpruneTransformPath                                                     *)
(***************************************************************************)
\* timefilter's extractBeginTimeFor: the Date the path's dated directory
\* denotes (months of a Date count from 0), null when the path has none
extractBeginTimeFor(path) ==
    IF path.dir = NoDir THEN Null
    ELSE [year |-> path.dir[1], month |-> path.dir[2] - 1, date |-> path.dir[3]]

\* path.basename
basename(path) == path.base

\* MpruneTransformPath.prototype._transform: the object it pushes
TransformPath(obj) ==
    [path |-> obj.path, type |-> obj.type,
     start |-> extractBeginTimeFor(obj.path), basename |-> basename(obj.path)]

(***************************************************************************)
(* policyForName                                                           *)
(***************************************************************************)
\* a name is a sequence of characters
Twicemonthly == <<"t", "w", "i", "c", "e", "m", "o", "n", "t", "h", "l", "y">>

\* the upper-case letter of each lower-case letter
UpperOf ==
    [c \in {"a", "b", "c", "d", "e", "f", "g", "h", "i", "j", "k", "l", "m", "n",
            "o", "p", "q", "r", "s", "t", "u", "v", "w", "x", "y", "z"} |->
        CASE c = "a" -> "A" [] c = "b" -> "B" [] c = "c" -> "C" [] c = "d" -> "D"
          [] c = "e" -> "E" [] c = "f" -> "F" [] c = "g" -> "G" [] c = "h" -> "H"
          [] c = "i" -> "I" [] c = "j" -> "J" [] c = "k" -> "K" [] c = "l" -> "L"
          [] c = "m" -> "M" [] c = "n" -> "N" [] c = "o" -> "O" [] c = "p" -> "P"
          [] c = "q" -> "Q" [] c = "r" -> "R" [] c = "s" -> "S" [] c = "t" -> "T"
          [] c = "u" -> "U" [] c = "v" -> "V" [] c = "w" -> "W" [] c = "x" -> "X"
          [] c = "y" -> "Y" [] c = "z" -> "Z"]

\* String.prototype.toLowerCase, character by character
LowerChar(c) ==
    IF \E l \in DOMAIN UpperOf : UpperOf[l] = c
    THEN CHOOSE l \in DOMAIN UpperOf : UpperOf[l] = c
    ELSE c

toLowerCase(name) == [k \in 1..Len(name) |-> LowerChar(name[k])]

\* the constructor MprunePolicyTwiceMonthly
MprunePolicyTwiceMonthly == [constructor |-> "MprunePolicyTwiceMonthly"]

\* mpPolicies: its own properties (lines 70-72)
mpPolicies == [t \in {Twicemonthly} |-> MprunePolicyTwiceMonthly]

\* new VError('unsupported policy: %s', name)
UnsupportedPolicy(name) == [message |-> "unsupported policy: %s", name |-> name]

\* a variant of policyForName that looks the name up as given
policyForNameAsGiven(name) ==
    IF name \notin DOMAIN mpPolicies THEN UnsupportedPolicy(name)
    ELSE mpPolicies[name]

policyForName(name) ==
    LET t == toLowerCase(name)
    IN  IF t \notin DOMAIN mpPolicies THEN UnsupportedPolicy(name)
        ELSE mpPolicies[t]

\* no policy has been looked up yet
Unresolved == [unresolved |-> TRUE]

\* every way of writing 'twicemonthly' in upper and lower case
CaseVariants ==
    {[k \in 1..Len(Twicemonthly) |->
         IF mask[k] THEN UpperOf[Twicemonthly[k]] ELSE Twicemonthly[k]] :
     mask \in [1..Len(Twicemonthly) -> BOOLEAN]}

\* other names a caller may ask for
OtherNames ==
    {<< >>,
     <<"m", "o", "n", "t", "h", "l", "y">>,
     <<"t", "w", "i", "c", "e", "m", "o", "n", "t", "h", "l">>,
     <<"t", "w", "i", "c", "e", "m", "o", "n", "t", "h", "l", "y", "2">>,
     <<"T", "W", "I", "C", "E", "-", "M", "O", "N", "T", "H", "L", "Y">>,
     <<" ", "t", "w", "i", "c", "e", "m", "o", "n", "t", "h", "l", "y">>,
     <<"c", "o", "n", "s", "t", "r", "u", "c", "t", "o", "r">>,
     <<"t", "o", "S", "t", "r", "i", "n", "g">>,
     <<"D", "A", "I", "L", "Y">>}

(***************************************************************************)
(* MprunePolicyTwiceMonthly: the bucket tree                               *)
(***************************************************************************)
EmptyNode == << >>

hasOwnProperty(node, v) == v \in DOMAIN node

SetKey(node, v, val) ==
    [k \in (DOMAIN node) \cup {v} |-> IF k = v THEN val ELSE node[k]]

getUTCFullYear(when) == when.year
getUTCMonth(when) == when.month
getUTCDate(when) == when.date

\* _transform, lines 374-391: the tree after obj is pushed onto its day's bucket
TreeInsert(root, obj) ==
    LET y == getUTCFullYear(obj.start)
        m == getUTCMonth(obj.start) + 1
        d == getUTCDate(obj.start)
        ytree == IF hasOwnProperty(root, y) THEN root[y] ELSE EmptyNode
        mtree == IF hasOwnProperty(ytree, m) THEN ytree[m] ELSE EmptyNode
        bucket == IF hasOwnProperty(mtree, d) THEN mtree[d] ELSE << >>
    IN  SetKey(root, y, SetKey(ytree, m, SetKey(mtree, d, Append(bucket, obj))))

(***************************************************************************)
(* MprunePolicyTwiceMonthly.prototype.dayIsComplete                        *)
(***************************************************************************)
\* Array.prototype.splice(i, 1), with i counted from 1
Splice(s, i) == [k \in 1..(Len(s) - 1) |-> IF k < i THEN s[k] ELSE s[k + 1]]

\* a variant of the inner loop that stops at the first expression it removes
RECURSIVE ConsumeFirstMatch(_, _, _)
ConsumeFirstMatch(regexps, i, name) ==
    IF i > Len(regexps) THEN regexps
    ELSE IF RegexpTest(regexps[i], name) THEN Splice(regexps, i)
    ELSE ConsumeFirstMatch(regexps, i + 1, name)

\* the inner loop, lines 508-513: every remaining expression that matches the
\* basename is removed (after a splice the same index is tested again)
RECURSIVE ConsumeMatches(_, _, _)
ConsumeMatches(regexps, i, name) ==
    IF i > Len(regexps) THEN regexps
    ELSE IF RegexpTest(regexps[i], name)
         THEN ConsumeMatches(Splice(regexps, i), i, name)
         ELSE ConsumeMatches(regexps, i + 1, name)

\* a variant that tries the expressions on the first object of the day only
ForEachObjectFirstOnly(objects, k, regexps) ==
    IF k > Len(objects) THEN regexps
    ELSE ConsumeMatches(regexps, 1, objects[k].basename)

\* tree[which].forEach(...), lines 504-514
RECURSIVE ForEachObject(_, _, _)
ForEachObject(objects, k, regexps) ==
    IF k > Len(objects) THEN regexps
    ELSE ForEachObject(objects, k + 1, ConsumeMatches(regexps, 1, objects[k].basename))

\* a variant of dayIsComplete that looks at the expected list first
dayIsCompleteListFirst(tree, which) ==
    IF Len(mpm_expect) = 0 THEN TRUE
    ELSE IF ~hasOwnProperty(tree, which) \/ Len(tree[which]) = 0 THEN FALSE
    ELSE Len(ForEachObject(tree[which], 1, mpm_expect)) = 0

dayIsComplete(tree, which) ==
    IF ~hasOwnProperty(tree, which) \/ Len(tree[which]) = 0 THEN FALSE
    ELSE IF Len(mpm_expect) = 0 THEN TRUE
    ELSE Len(ForEachObject(tree[which], 1, mpm_expect)) = 0

\* a variant of line 503 in which regexps is mpm_expect itself, not a copy:
\* the list dayIsComplete leaves behind is what the objects did not consume
ExpectAfterCallShared(expect, objects) == ForEachObject(objects, 1, expect)

\* line 503: regexps = this.mpm_expect.slice(0); every splice of lines 508-513
\* acts on regexps, so the call leaves mpm_expect as it found it
ExpectAfterCall(expect, objects) == expect

\* mpm_expect after the calls of dayIsComplete for the days of a sequence;
\* a call gets as far as line 503 when the day has objects and the list is
\* not empty
RECURSIVE ExpectAfterDays(_, _, _)
ExpectAfterDays(expect, tree, days) ==
    IF days = << >> THEN expect
    ELSE ExpectAfterDays(IF /\ hasOwnProperty(tree, Head(days))
                            /\ Len(tree[Head(days)]) # 0
                            /\ Len(expect) # 0
                         THEN ExpectAfterCall(expect, tree[Head(days)])
                         ELSE expect,
                         tree, Tail(days))

(***************************************************************************)
(* MprunePolicyTwiceMonthly.prototype.processMonth                         *)
(***************************************************************************)
\* a variant of the first scan whose loop ends one day early (first < 14)
RECURSIVE ScanFirstShort(_, _)
ScanFirstShort(tree, first) ==
    IF first < 14 /\ ~dayIsComplete(tree, first) THEN ScanFirstShort(tree, first + 1)
    ELSE first

\* the loop of lines 419-423, entered with first = 1: the value of first after it
RECURSIVE ScanFirst(_, _)
ScanFirst(tree, first) ==
    IF first < 15 /\ ~dayIsComplete(tree, first) THEN ScanFirst(tree, first + 1)
    ELSE first

\* a variant of the second scan that is entered one day early (second = 14)
RECURSIVE ScanTo31(_, _)
ScanTo31(tree, second) ==
    IF second <= 31 /\ ~dayIsComplete(tree, second) THEN ScanTo31(tree, second + 1)
    ELSE second

ScanSecondEarly(tree, second) == ScanTo31(tree, second - 1)

\* the loop of lines 431-435, entered with second = 15
RECURSIVE ScanSecond(_, _)
ScanSecond(tree, second) ==
    IF second <= 31 /\ ~dayIsComplete(tree, second) THEN ScanSecond(tree, second + 1)
    ELSE second

Warning(kind, message) == [kind |-> kind, message |-> message]

\* a variant in which only the first half marks the month
SkipOfFirstOnly(first, second) == first = 15

\* lines 425-441: skip is set when either scan ran off its range
SkipOf(first, second) == first = 15 \/ second = 32

\* a variant that gives up on the month after the first warning
MissingWarningsFirstOnly(label, first, second) ==
    IF first = 15
    THEN <<Warning("nerr_missing", label \o ": no valid objects found in days 1-14")>>
    ELSE IF second = 32
    THEN <<Warning("nerr_missing", label \o ": no valid objects found after day 15")>>
    ELSE << >>

\* lines 425-441: the nerr_missing warnings
MissingWarnings(label, first, second) ==
    (IF first = 15
     THEN <<Warning("nerr_missing", label \o ": no valid objects found in days 1-14")>>
     ELSE << >>)
    \o
    (IF second = 32
     THEN <<Warning("nerr_missing", label \o ": no valid objects found after day 15")>>
     ELSE << >>)

\* a variant in which the second warning is only given together with the first
DayWarningsChained(label, first, second, skip) ==
    IF ~skip /\ first # 1
    THEN <<Warning("nwarn_noday1", label \o ": missing objects from day 1")>>
         \o (IF second # 15
             THEN <<Warning("nwarn_noday2", label \o ": missing objects from day 1")>>
             ELSE << >>)
    ELSE << >>

\* lines 447-454: the nwarn_noday1 and nwarn_noday2 warnings
DayWarnings(label, first, second, skip) ==
    (IF ~skip /\ first # 1
     THEN <<Warning("nwarn_noday1", label \o ": missing objects from day 1")>>
     ELSE << >>)
    \o
    (IF ~skip /\ second # 15
     THEN <<Warning("nwarn_noday2", label \o ": missing objects from day 1")>>
     ELSE << >>)

ReasonUndetermined == "could not determine which objects to keep in this month"
ReasonKeep == "designated for keeping"

\* a variant that keeps only the first keep-day
DecisionForFirstOnly(o, i, first, second, skip) ==
    IF skip THEN [type |-> "skip", path |-> o.path, reason |-> ReasonUndetermined]
    ELSE IF i = first
         THEN [type |-> "skip", path |-> o.path, reason |-> ReasonKeep]
         ELSE [type |-> "remove", path |-> o.path]

\* a variant that explains a removal as well
DecisionForExplained(o, i, first, second, skip) ==
    IF skip THEN [type |-> "skip", path |-> o.path, reason |-> ReasonUndetermined]
    ELSE IF i = first \/ i = second
         THEN [type |-> "skip", path |-> o.path, reason |-> ReasonKeep]
         ELSE [type |-> "remove", path |-> o.path, reason |-> "not a keep-day"]

\* lines 466-486: the record pushed for object o of day i
DecisionFor(o, i, first, second, skip) ==
    IF skip THEN [type |-> "skip", path |-> o.path, reason |-> ReasonUndetermined]
    ELSE IF i = first \/ i = second
         THEN [type |-> "skip", path |-> o.path, reason |-> ReasonKeep]
         ELSE [type |-> "remove", path |-> o.path]

\* objects.forEach(...), lines 466-486
DayDecisions(objects, i, first, second, skip) ==
    [k \in 1..Len(objects) |-> DecisionFor(objects[k], i, first, second, skip)]

\* a variant of the emission loop that stops before day 31
RECURSIVE EmitDaysShort(_, _, _, _, _)
EmitDaysShort(tree, i, first, second, skip) ==
    IF i >= 31 THEN << >>
    ELSE (IF hasOwnProperty(tree, i)
          THEN DayDecisions(tree[i], i, first, second, skip) ELSE << >>)
         \o EmitDaysShort(tree, i + 1, first, second, skip)

\* the loop of lines 457-487, entered with i = 0
RECURSIVE EmitDays(_, _, _, _, _)
EmitDays(tree, i, first, second, skip) ==
    IF i >= 32 THEN << >>
    ELSE (IF hasOwnProperty(tree, i)
          THEN DayDecisions(tree[i], i, first, second, skip) ELSE << >>)
         \o EmitDays(tree, i + 1, first, second, skip)

\* the days dayIsComplete was called for, each with what the call returned
TestedDays(tree, first, second) ==
    LET days == (1..(IF first < 15 THEN first ELSE 14))
                \cup (15..(IF second < 32 THEN second ELSE 31))
    IN  [d \in days |-> dayIsComplete(tree, d)]

\* processMonth: its locals, the warnings it gives, whether its assertion of
\* line 456 holds, and the records it pushes
processMonth(label, monthtree) ==
    LET first == ScanFirst(monthtree, 1)
        second == ScanSecond(monthtree, 15)
        skip == SkipOf(first, second)
    IN  [label |-> label, first |-> first, second |-> second, skip |-> skip,
         tested |-> TestedDays(monthtree, first, second),
         warns |-> MissingWarnings(label, first, second)
                   \o DayWarnings(label, first, second, skip),
         assertok |-> (skip \/ first # second),
         pushes |-> EmitDays(monthtree, 0, first, second, skip)]

(***************************************************************************)
(* MprunePolicyTwiceMonthly.prototype._flush                               *)
(***************************************************************************)
\* the keys of an object whose keys are integers, in the order for-in visits them
RECURSIVE SortedKeys(_)
SortedKeys(S) ==
    IF S = {} THEN << >>
    ELSE LET m == CHOOSE x \in S : \A y \in S : x <= y
         IN  <<m>> \o SortedKeys(S \ {m})

\* sprintf('%s-%02d', year, month)
MonthLabel(year, month) ==
    ToString(year) \o "-" \o (IF month < 10 THEN "0" ELSE "") \o ToString(month)

\* the (year, month) pairs in the order the nested forEachKey calls visit them
RECURSIVE MonthsInOrder(_, _)
MonthsInOrder(root, years) ==
    IF years = << >> THEN << >>
    ELSE LET y == Head(years)
             ms == SortedKeys(DOMAIN root[y])
         IN  [k \in 1..Len(ms) |-> <<y, ms[k]>>] \o MonthsInOrder(root, Tail(years))

\* how many of the calls run: all of them, or up to and including the first
\* whose assertion of line 456 fails (it throws out of _flush)
RECURSIVE CallsRun(_, _)
CallsRun(calls, k) ==
    IF k > Len(calls) THEN Len(calls)
    ELSE IF calls[k].assertok THEN CallsRun(calls, k + 1) ELSE k

\* the processMonth calls of one _flush, in order
MonthCalls(root, pairs) ==
    LET all == [k \in 1..Len(pairs) |->
                   processMonth(MonthLabel(pairs[k][1], pairs[k][2]),
                                root[pairs[k][1]][pairs[k][2]])]
    IN  SubSeq(all, 1, CallsRun(all, 1))

RECURSIVE ConcatField(_, _)
ConcatField(calls, f) ==
    IF calls = << >> THEN << >>
    ELSE (IF Head(calls).assertok \/ f = "warns" THEN Head(calls)[f] ELSE << >>)
         \o ConcatField(Tail(calls), f)

FlushCalls(root) == MonthCalls(root, MonthsInOrder(root, SortedKeys(DOMAIN root)))

\* mpm_expect after the processMonth calls of one _flush, from call k on
RECURSIVE ExpectAfterCalls(_, _, _, _, _)
ExpectAfterCalls(expect, root, pairs, calls, k) ==
    IF k > Len(calls) THEN expect
    ELSE LET monthtree == root[pairs[k][1]][pairs[k][2]]
             \* the days the scans tested that have a bucket, in the order tested
             days == SortedKeys((DOMAIN calls[k].tested) \cap (DOMAIN monthtree))
         IN  ExpectAfterCalls(ExpectAfterDays(expect, monthtree, days),
                              root, pairs, calls, k + 1)

ExpectAfterFlush(expect, root, calls) ==
    ExpectAfterCalls(expect, root, MonthsInOrder(root, SortedKeys(DOMAIN root)), calls, 1)

(***************************************************************************)
(* The stages of the pipeline                                              *)
(***************************************************************************)
\* new VError(cause, '%s', label), as proxyEmitError builds it
VError(label, cause) == [label |-> label, cause |-> cause]

\* a variant of start in which the target's listener carries the policy's label
proxyLabelCopied(stream) ==
    CASE stream = "mp_finder" -> "finder"
      [] stream = "mp_policy" -> "policy"
      [] stream = "mp_target" -> "policy"

\* start, lines 200-202: the label of the 'error' listener put on each stream
proxyLabel(stream) ==
    CASE stream = "mp_finder" -> "finder"
      [] stream = "mp_policy" -> "policy"
      [] stream = "mp_target" -> "remover"

\* what each stream gives as the cause of its failure
FinderCause == [message |-> "listing failed"]
RemoverCause == [message |-> "not yet implemented: MpruneTargetRemover.write()"]

Dirs == {<<y, m, d>> : y \in Years, m \in MonthChoices, d \in DayChoices}

\* the number of paths of s under dir with basename base
RECURSIVE CountSame(_, _, _)
CountSame(s, dir, base) ==
    IF s = << >> THEN 0
    ELSE (IF Head(s).dir = dir /\ Head(s).base = base THEN 1 ELSE 0)
         + CountSame(Tail(s), dir, base)

\* a path not yielded before: paths are unique within a run
NewPath(sofar, dir, base) ==
    [dir |-> dir, base |-> base, n |-> CountSame(sofar, dir, base) + 1]

\* MantaFinder yields one more object; mp_finder.pipe(mp_xform) writes it,
\* and pauses the finder while mp_xform's buffer is at its highWaterMark
Yield(dirs, bases, max) ==
    /\ finderState = "running"
    /\ Len(found) < max
    /\ Len(xformQ) < highWaterMark
    /\ \E dir \in dirs, base \in bases :
          LET p == NewPath(found, dir, base)
          IN  /\ found' = Append(found, p)
              /\ xformQ' = Append(xformQ, [path |-> p, type |-> "object"])
    /\ UNCHANGED <<p_name, p_policy, mp_dryrun, mpm_expect, finderState, xformEnded, policyQ, policyPiped,
                   ingested, mpm_root, policyState, processed, emitted, warns, targetPos,
                   targetPiped, targetState, printed, removed, errors>>

\* the finder of a whole run comes upon an object under one of the dated
\* directories of PipeDirs, or upon a path that carries no date
FinderYield ==
    \/ Yield(PipeDirs, PipeBasenames, MaxRecords)
    \/ Yield({NoDir}, PipeBasenames, MaxRecords)

\* MantaFinder has yielded everything and ends
FinderEnd ==
    /\ finderState = "running"
    /\ finderState' = "ended"
    /\ UNCHANGED <<p_name, p_policy, mp_dryrun, mpm_expect, found, xformQ, xformEnded, policyQ, policyPiped,
                   ingested, mpm_root, policyState, processed, emitted, warns, targetPos,
                   targetPiped, targetState, printed, removed, errors>>

\* MantaFinder emits 'error'; proxyEmitError('finder') re-emits it
FinderFail ==
    /\ finderState = "running"
    /\ finderState' = "failed"
    /\ errors' = Append(errors, VError(proxyLabel("mp_finder"), FinderCause))
    /\ UNCHANGED <<p_name, p_policy, mp_dryrun, mpm_expect, found, xformQ, xformEnded, policyQ, policyPiped,
                   ingested, mpm_root, policyState, processed, emitted, warns, targetPos,
                   targetPiped, targetState, printed, removed>>

\* MpruneTransformPath.prototype._transform on the next object written to it.
\* policyQ stands for what mp_xform has pushed and mp_policy has not yet
\* transformed: the readable buffer of the one and the writable buffer of the
\* other, each filled up to its highWaterMark before the stage upstream pauses.
XformTransform ==
    /\ xformQ # << >>
    /\ Len(policyQ) < 2 * highWaterMark
    /\ policyQ' = Append(policyQ, TransformPath(Head(xformQ)))
    /\ xformQ' = Tail(xformQ)
    /\ UNCHANGED <<p_name, p_policy, mp_dryrun, mpm_expect, found, finderState, xformEnded, policyPiped,
                   ingested, mpm_root, policyState, processed, emitted, warns, targetPos,
                   targetPiped, targetState, printed, removed, errors>>

\* the finder's 'end' ends mp_xform once it has transformed everything
XformEnd ==
    /\ finderState = "ended"
    /\ xformQ = << >>
    /\ ~xformEnded
    /\ xformEnded' = TRUE
    /\ UNCHANGED <<p_name, p_policy, mp_dryrun, mpm_expect, found, finderState, xformQ, policyQ, policyPiped,
                   ingested, mpm_root, policyState, processed, emitted, warns, targetPos,
                   targetPiped, targetState, printed, removed, errors>>

NoBucketMessage(path) ==
    [message |-> "found entry not under a particular time bucket: %s", path |-> path]

\* a variant of _transform that answers a null timestamp with a skip record
PolicyTransformSkipsNull ==
    /\ policyState = "ingesting"
    /\ policyPiped
    /\ policyQ # << >>
    /\ LET obj == Head(policyQ)
       IN  /\ policyQ' = Tail(policyQ)
           /\ ingested' = Append(ingested, obj)
           /\ IF obj.start = Null
              THEN /\ emitted' = Append(emitted, [type |-> "skip", path |-> obj.path,
                                                  reason |-> "no time bucket"])
                   /\ UNCHANGED mpm_root
              ELSE /\ mpm_root' = TreeInsert(mpm_root, obj)
                   /\ UNCHANGED emitted
    /\ UNCHANGED <<p_name, p_policy, mp_dryrun, mpm_expect, found, finderState, xformQ, xformEnded,
                   policyPiped, policyState, processed, warns, targetPos, targetPiped,
                   targetState, printed, removed, errors>>

\* a variant of _transform that decides an object of day 1 as soon as it arrives
PolicyTransformEager ==
    /\ policyState = "ingesting"
    /\ policyPiped
    /\ policyQ # << >>
    /\ LET obj == Head(policyQ)
       IN  /\ policyQ' = Tail(policyQ)
           /\ ingested' = Append(ingested, obj)
           /\ IF obj.start = Null
              THEN /\ policyState' = "failed"
                   /\ policyPiped' = FALSE
                   /\ errors' = Append(errors, VError(proxyLabel("mp_policy"),
                                                   NoBucketMessage(obj.path)))
                   /\ UNCHANGED <<mpm_root, emitted>>
              ELSE IF getUTCDate(obj.start) = 1
              THEN /\ emitted' = Append(emitted, [type |-> "skip", path |-> obj.path,
                                                  reason |-> ReasonKeep])
                   /\ UNCHANGED <<mpm_root, policyState, policyPiped, errors>>
              ELSE /\ mpm_root' = TreeInsert(mpm_root, obj)
                   /\ UNCHANGED <<policyState, policyPiped, errors, emitted>>
    /\ UNCHANGED <<p_name, p_policy, mp_dryrun, mpm_expect, found, finderState, xformQ, xformEnded,
                   processed, warns, targetPos, targetPiped, targetState, printed,
                   removed>>

\* MprunePolicyTwiceMonthly.prototype._transform on the next object written to
\* it.  A null timestamp calls back with an error: the stream emits 'error',
\* the pipe from mp_xform unpipes, proxyEmitError('policy') re-emits it, and the
\* stream transforms nothing more.
PolicyTransform ==
    /\ policyState = "ingesting"
    /\ policyPiped
    /\ policyQ # << >>
    /\ LET obj == Head(policyQ)
       IN  /\ policyQ' = Tail(policyQ)
           /\ ingested' = Append(ingested, obj)
           /\ IF obj.start = Null
              THEN /\ policyState' = "failed"
                   /\ policyPiped' = FALSE
                   /\ errors' = Append(errors, VError(proxyLabel("mp_policy"),
                                                   NoBucketMessage(obj.path)))
                   /\ UNCHANGED mpm_root
              ELSE /\ mpm_root' = TreeInsert(mpm_root, obj)
                   /\ UNCHANGED <<policyState, policyPiped, errors>>
    /\ UNCHANGED <<p_name, p_policy, mp_dryrun, mpm_expect, found, finderState, xformQ, xformEnded,
                   processed, emitted, warns, targetPos, targetPiped, targetState,
                   printed, removed>>

\* the stream calls _flush: mp_xform has ended the engine's input and the
\* engine has transformed everything written to it
FlushReady ==
    /\ policyState = "ingesting"
    /\ policyPiped
    /\ xformEnded
    /\ policyQ = << >>

\* MprunePolicyTwiceMonthly.prototype._flush: runs when mp_xform has ended and
\* every object written has been transformed; processes every month, pushes
\* every record, then pushes null
PolicyFlush ==
    /\ FlushReady
    /\ processed' = FlushCalls(mpm_root)
    /\ warns' = warns \o ConcatField(processed', "warns")
    /\ emitted' = emitted \o ConcatField(processed', "pushes")
    /\ policyState' = IF \A k \in 1..Len(processed') : processed'[k].assertok
                      THEN "flushed" ELSE "threw"
    /\ mpm_expect' = ExpectAfterFlush(mpm_expect, mpm_root, processed')
    /\ UNCHANGED <<p_name, p_policy, mp_dryrun, found, finderState, xformQ, xformEnded, policyQ,
                   policyPiped, ingested, mpm_root, targetPos, targetPiped, targetState,
                   printed, removed, errors>>

\* validateRecord: TRUE when none of its assertions fails
validateRecord(obj) ==
    IF obj.type = "skip" THEN "reason" \in DOMAIN obj
    ELSE obj.type = "remove" /\ "reason" \notin DOMAIN obj

\* the line MpruneTargetDryRun prints
DryRunLine(obj) ==
    IF obj.type = "skip"
    THEN [text |-> "would skip (%s): %s", reason |-> obj.reason, path |-> obj.path]
    ELSE [text |-> "would remove: %s", path |-> obj.path]

\* a variant of the dry-run _write that prints and never calls back
TargetDryRunWriteNoCallback ==
    /\ mp_dryrun
    /\ targetState = "open"
    /\ targetPiped
    /\ targetPos < Len(emitted)
    /\ LET obj == emitted[targetPos + 1]
       IN  /\ targetPos' = targetPos + 1
           /\ IF validateRecord(obj)
              THEN /\ printed' = Append(printed, DryRunLine(obj))
                   /\ targetState' = "writing"
              ELSE /\ targetState' = "threw"
                   /\ UNCHANGED printed
    /\ UNCHANGED <<p_name, p_policy, mp_dryrun, mpm_expect, found, finderState, xformQ, xformEnded, policyQ,
                   policyPiped, ingested, mpm_root, policyState, processed, emitted, warns,
                   targetPiped, removed, errors>>

\* MpruneTargetDryRun.prototype._write on the next record piped to it
TargetDryRunWrite ==
    /\ mp_dryrun
    /\ targetState = "open"
    /\ targetPiped
    /\ targetPos < Len(emitted)
    /\ LET obj == emitted[targetPos + 1]
       IN  /\ targetPos' = targetPos + 1
           /\ IF validateRecord(obj)
              THEN /\ printed' = Append(printed, DryRunLine(obj))
                   /\ UNCHANGED targetState
              ELSE /\ targetState' = "threw"
                   /\ UNCHANGED printed
    /\ UNCHANGED <<p_name, p_policy, mp_dryrun, mpm_expect, found, finderState, xformQ, xformEnded, policyQ,
                   policyPiped, ingested, mpm_root, policyState, processed, emitted, warns,
                   targetPiped, removed, errors>>

\* MpruneTargetRemover.prototype._write on the next record piped to it: it
\* calls back with an error whatever the record; the stream emits 'error', the
\* pipe from mp_policy unpipes and proxyEmitError('remover') re-emits it
TargetRemoverWrite ==
    /\ ~mp_dryrun
    /\ targetState = "open"
    /\ targetPiped
    /\ targetPos < Len(emitted)
    /\ LET obj == emitted[targetPos + 1]
       IN  /\ targetPos' = targetPos + 1
           /\ IF validateRecord(obj)
              THEN /\ targetState' = "failed"
                   /\ targetPiped' = FALSE
                   /\ errors' = Append(errors, VError(proxyLabel("mp_target"), RemoverCause))
              ELSE /\ targetState' = "threw"
                   /\ UNCHANGED <<targetPiped, errors>>
    /\ UNCHANGED <<p_name, p_policy, mp_dryrun, mpm_expect, found, finderState, xformQ, xformEnded, policyQ,
                   policyPiped, ingested, mpm_root, policyState, processed, emitted, warns,
                   printed, removed>>

\* the null mp_policy pushed ends the target once it has written every record
TargetFinish ==
    /\ policyState = "flushed"
    /\ targetPiped
    /\ targetState = "open"
    /\ targetPos = Len(emitted)
    /\ targetState' = "finished"
    /\ UNCHANGED <<p_name, p_policy, mp_dryrun, mpm_expect, found, finderState, xformQ, xformEnded, policyQ,
                   policyPiped, ingested, mpm_root, policyState, processed, emitted, warns,
                   targetPos, targetPiped, printed, removed, errors>>

(***************************************************************************)
(* Spec: one run of mprune(), from construction                            *)
(***************************************************************************)
Init ==
    /\ p_name = Twicemonthly
    /\ p_policy = policyForName(p_name)
    /\ mp_dryrun \in BOOLEAN
    /\ mpm_expect \in PipeExpectChoices
    /\ found = << >>
    /\ finderState = "running"
    /\ xformQ = << >>
    /\ xformEnded = FALSE
    /\ policyQ = << >>
    /\ policyPiped = TRUE
    /\ ingested = << >>
    /\ mpm_root = EmptyNode
    /\ policyState = "ingesting"
    /\ processed = << >>
    /\ emitted = << >>
    /\ warns = << >>
    /\ targetPos = 0
    /\ targetPiped = TRUE
    /\ targetState = "open"
    /\ printed = << >>
    /\ removed = {}
    /\ errors = << >>

Next ==
    \/ FinderYield
    \/ FinderEnd
    \/ FinderFail
    \/ XformTransform
    \/ XformEnd
    \/ PolicyTransform
    \/ PolicyFlush
    \/ TargetDryRunWrite
    \/ TargetRemoverWrite
    \/ TargetFinish

Spec == Init /\ [][Next]_vars

\* WF_vars(PolicyFlush), with ENABLED <<PolicyFlush>>_vars written as
\* FlushReady: whenever FlushReady holds, the assignments of PolicyFlush give
\* a next state, and it differs in policyState
FlushFairness == ([]<>(~FlushReady)) \/ ([]<><<PolicyFlush>>_vars)

\* Every stage downstream of the finder runs on the event loop of one
\* process: a _transform, _flush or _write that has its input and room
\* downstream is called, and a callback given to setImmediate runs.  The
\* finder waits on a remote service and is promised nothing.
Fairness ==
    /\ WF_vars(XformTransform)
    /\ WF_vars(XformEnd)
    /\ WF_vars(PolicyTransform)
    /\ FlushFairness
    /\ WF_vars(TargetDryRunWrite)
    /\ WF_vars(TargetRemoverWrite)
    /\ WF_vars(TargetFinish)

SpecLive == Init /\ [][Next]_vars /\ Fairness

(***************************************************************************)
(* SpecFlow: a dry run over many objects of one day, no stage failing      *)
(***************************************************************************)
\* the finder of a run over one directory
FlowYield == Yield(FlowDirs, PipeBasenames, MaxFlowRecords)

InitFlow ==
    /\ p_name = Twicemonthly
    /\ p_policy = policyForName(p_name)
    /\ mp_dryrun = TRUE
    /\ mpm_expect = << >>
    /\ found = << >>
    /\ finderState = "running"
    /\ xformQ = << >>
    /\ xformEnded = FALSE
    /\ policyQ = << >>
    /\ policyPiped = TRUE
    /\ ingested = << >>
    /\ mpm_root = EmptyNode
    /\ policyState = "ingesting"
    /\ processed = << >>
    /\ emitted = << >>
    /\ warns = << >>
    /\ targetPos = 0
    /\ targetPiped = TRUE
    /\ targetState = "open"
    /\ printed = << >>
    /\ removed = {}
    /\ errors = << >>

NextFlow ==
    \/ FlowYield
    \/ FinderEnd
    \/ XformTransform
    \/ XformEnd
    \/ PolicyTransform
    \/ PolicyFlush
    \/ TargetDryRunWrite
    \/ TargetFinish

SpecFlow == InitFlow /\ [][NextFlow]_vars

(***************************************************************************)
(* SpecMonth: the decision phase, from every bucket tree of up to          *)
(* MaxTreeRecords objects that ingestion can have built                    *)
(***************************************************************************)
DirKey(dir) == dir[1] * 10000 + dir[2] * 100 + dir[3]

\* the dated directories of arrivals never go back: one arrival order for
\* each bucket tree
NeverBack(arrivals) ==
    \A k \in 1..(Len(arrivals) - 1) :
        DirKey(arrivals[k][1]) <= DirKey(arrivals[k + 1][1])

\* the paths of a sequence of <<directory, basename>> arrivals; paths are unique
PathsOf(arrivals) ==
    [k \in 1..Len(arrivals) |->
        [dir |-> arrivals[k][1], base |-> arrivals[k][2],
         n |-> Cardinality({j \in 1..k : arrivals[j] = arrivals[k]})]]

\* the objects mp_xform makes of the paths
Transformed(paths) ==
    [k \in 1..Len(paths) |-> TransformPath([path |-> paths[k], type |-> "object"])]

\* the tree after _transform has taken every object of objs
RECURSIVE IngestAll(_, _)
IngestAll(root, objs) ==
    IF objs = << >> THEN root ELSE IngestAll(TreeInsert(root, Head(objs)), Tail(objs))

InitMonth ==
    /\ p_name = Twicemonthly
    /\ p_policy = policyForName(p_name)
    /\ mp_dryrun = TRUE
    /\ \E n \in 0..MaxTreeRecords :
          \E arrivals \in [1..n -> Dirs \X Basenames] :
              /\ NeverBack(arrivals)
              /\ found = PathsOf(arrivals)
    /\ mpm_expect \in ExpectChoices
    /\ finderState = "ended"
    /\ xformQ = << >>
    /\ xformEnded = TRUE
    /\ policyQ = << >>
    /\ policyPiped = TRUE
    /\ ingested = Transformed(found)
    /\ mpm_root = IngestAll(EmptyNode, ingested)
    /\ policyState = "ingesting"
    /\ processed = << >>
    /\ emitted = << >>
    /\ warns = << >>
    /\ targetPos = 0
    /\ targetPiped = TRUE
    /\ targetState = "open"
    /\ printed = << >>
    /\ removed = {}
    /\ errors = << >>

NextMonth == PolicyFlush

SpecMonth == InitMonth /\ [][NextMonth]_vars

(***************************************************************************)
(* SpecOrder: the decision phase, from every order of arrival of up to     *)
(* MaxTreeRecords objects                                                   *)
(***************************************************************************)
OrderDirs == {<<2020, 7, 1>>, <<2020, 7, 2>>, <<2020, 7, 15>>, <<2020, 8, 1>>}
OrderExpectChoices == {<< >>, <<ReA, ReB>>, <<ReAny, ReA>>}

InitOrder ==
    /\ p_name = Twicemonthly
    /\ p_policy = policyForName(p_name)
    /\ mp_dryrun = TRUE
    /\ \E n \in 0..MaxTreeRecords :
          \E arrivals \in [1..n -> OrderDirs \X Basenames] :
              found = PathsOf(arrivals)
    /\ mpm_expect \in OrderExpectChoices
    /\ finderState = "ended"
    /\ xformQ = << >>
    /\ xformEnded = TRUE
    /\ policyQ = << >>
    /\ policyPiped = TRUE
    /\ ingested = Transformed(found)
    /\ mpm_root = IngestAll(EmptyNode, ingested)
    /\ policyState = "ingesting"
    /\ processed = << >>
    /\ emitted = << >>
    /\ warns = << >>
    /\ targetPos = 0
    /\ targetPiped = TRUE
    /\ targetState = "open"
    /\ printed = << >>
    /\ removed = {}
    /\ errors = << >>

NextOrder == PolicyFlush

SpecOrder == InitOrder /\ [][NextOrder]_vars

(***************************************************************************)
(* SpecName: the caller looks a policy up by name, before any run          *)
(***************************************************************************)
\* the caller calls policyForName with the name it was given
ResolvePolicy ==
    /\ p_policy = Unresolved
    /\ p_policy' = policyForName(p_name)
    /\ UNCHANGED <<p_name, mp_dryrun, mpm_expect, found, finderState, xformQ, xformEnded,
                   policyQ, policyPiped, ingested, mpm_root, policyState, processed,
                   emitted, warns, targetPos, targetPiped, targetState, printed, removed,
                   errors>>

InitName ==
    /\ p_name \in CaseVariants \cup OtherNames
    /\ p_policy = Unresolved
    /\ mp_dryrun = TRUE
    /\ mpm_expect = << >>
    /\ found = << >>
    /\ finderState = "running"
    /\ xformQ = << >>
    /\ xformEnded = FALSE
    /\ policyQ = << >>
    /\ policyPiped = TRUE
    /\ ingested = << >>
    /\ mpm_root = EmptyNode
    /\ policyState = "ingesting"
    /\ processed = << >>
    /\ emitted = << >>
    /\ warns = << >>
    /\ targetPos = 0
    /\ targetPiped = TRUE
    /\ targetState = "open"
    /\ printed = << >>
    /\ removed = {}
    /\ errors = << >>

NextName == ResolvePolicy

SpecName == InitName /\ [][NextName]_vars

(***************************************************************************)
(* Vocabulary of the properties                                            *)
(***************************************************************************)
Range(s) == {s[k] : k \in 1..Len(s)}

Min(S) == CHOOSE x \in S : \A y \in S : x <= y

\* the (year, month) pairs present in the bucket tree
MonthsOfTree == UNION {{<<y, m>> : m \in DOMAIN mpm_root[y]} : y \in DOMAIN mpm_root}

TreeOf(ym) == mpm_root[ym[1]][ym[2]]

\* the decision phase has run to its end
Decided == policyState = "flushed"

\* the processMonth call made for a month
CallOf(ym) == CHOOSE c \in Range(processed) : c.label = MonthLabel(ym[1], ym[2])

\* the complete days of a month among the days of a half
CompleteDays(tree, half) == {d \in half : dayIsComplete(tree, d)}

FirstHalf == 1..14
SecondHalf == 15..31

Degraded(tree) ==
    CompleteDays(tree, FirstHalf) = {} \/ CompleteDays(tree, SecondHalf) = {}

\* the keep-days of a month that is not degraded
KeepDays(tree) ==
    {Min(CompleteDays(tree, FirstHalf)), Min(CompleteDays(tree, SecondHalf))}

\* the decisions emitted for a path, in order
DecisionsOf(path) == SelectSeq(emitted, LAMBDA e : e.path = path)

\* the objects of a month on the days of a set
ObjectsOn(tree, days) == UNION {Range(tree[d]) : d \in (DOMAIN tree) \cap days}

AllDays == 0..31

SkipUndetermined(path) == [type |-> "skip", path |-> path, reason |-> ReasonUndetermined]
SkipKeep(path) == [type |-> "skip", path |-> path, reason |-> ReasonKeep]
Remove(path) == [type |-> "remove", path |-> path]

\* how many warnings of a kind were given with a message
WarnCount(kind, message) ==
    Cardinality({k \in 1..Len(warns) : warns[k] = Warning(kind, message)})

(***************************************************************************)
(* C1                                                                      *)
(***************************************************************************)
\* C1: once the decision phase has run, in every month in which days 1..14
\* hold no complete day or days 15..31 hold no complete day, every object of
\* the month, whatever its day, has the decision skip with the reason 'could
\* not determine which objects to keep in this month', and none has a remove
\* decision.
C1_DegradedMonthIsSkipped ==
    Decided =>
        \A ym \in MonthsOfTree :
            Degraded(TreeOf(ym)) =>
                \A o \in ObjectsOn(TreeOf(ym), AllDays) :
                    /\ DecisionsOf(o.path) # << >>
                    /\ \A e \in Range(DecisionsOf(o.path)) : e = SkipUndetermined(o.path)

\* a month with a complete day in 1..14 and none in 15..31, holding objects
\* on two days, has been decided
C1_Witness ==
    /\ Decided
    /\ \E ym \in MonthsOfTree :
          /\ CompleteDays(TreeOf(ym), FirstHalf) # {}
          /\ CompleteDays(TreeOf(ym), SecondHalf) = {}
          /\ Cardinality(DOMAIN TreeOf(ym)) >= 2
          /\ \A o \in ObjectsOn(TreeOf(ym), AllDays) :
                DecisionsOf(o.path) = <<SkipUndetermined(o.path)>>

(***************************************************************************)
(* C3                                                                      *)
(***************************************************************************)
\* C3: in every month processed, the first keep-day processMonth settles on
\* is the smallest complete day of 1..14 (none when there is none) and the
\* second is the smallest complete day of 15..31 (none when there is none);
\* when both exist, every object on those two days has the decision skip
\* with the reason 'designated for keeping'.
C3_KeepDaysAreFirstCompleteDays ==
    Decided =>
        \A ym \in MonthsOfTree :
            LET tree == TreeOf(ym)
                c == CallOf(ym)
                firsts == CompleteDays(tree, FirstHalf)
                seconds == CompleteDays(tree, SecondHalf)
            IN  /\ IF firsts # {} THEN c.first = Min(firsts) ELSE c.first \notin FirstHalf
                /\ IF seconds # {} THEN c.second = Min(seconds)
                                   ELSE c.second \notin SecondHalf
                /\ (firsts # {} /\ seconds # {}) =>
                      \A o \in ObjectsOn(tree, {Min(firsts), Min(seconds)}) :
                          DecisionsOf(o.path) = <<SkipKeep(o.path)>>

\* a month whose day 1 holds objects but is not complete, so that the first
\* keep-day is a later day, has been decided with two keep-days
C3_Witness ==
    /\ Decided
    /\ \E ym \in MonthsOfTree :
          LET tree == TreeOf(ym)
              c == CallOf(ym)
          IN  /\ 1 \in DOMAIN tree
              /\ c.first = 5
              /\ c.second = 15
              /\ \A o \in ObjectsOn(tree, {5, 15}) :
                    DecisionsOf(o.path) = <<SkipKeep(o.path)>>

(***************************************************************************)
(* C4                                                                      *)
(***************************************************************************)
\* C4: for every month that is not degraded, the assertion of line 456 holds
\* and the two keep-days differ, and the objects with a remove decision are
\* exactly the objects of the month on days other than the two keep-days.
C4_RemoveSetIsTheOtherDays ==
    /\ policyState # "threw"
    /\ Decided =>
          \A ym \in MonthsOfTree :
              LET tree == TreeOf(ym)
                  c == CallOf(ym)
              IN  ~Degraded(tree) =>
                      /\ c.assertok
                      /\ c.first # c.second
                      /\ Cardinality(KeepDays(tree)) = 2
                      /\ {o \in ObjectsOn(tree, AllDays) :
                              Remove(o.path) \in Range(DecisionsOf(o.path))}
                         = ObjectsOn(tree, AllDays \ KeepDays(tree))

\* a month that is not degraded and holds an object on a third day has been
\* decided, and that object is removed
C4_Witness ==
    /\ Decided
    /\ \E ym \in MonthsOfTree :
          /\ ~Degraded(TreeOf(ym))
          /\ \E o \in ObjectsOn(TreeOf(ym), AllDays \ KeepDays(TreeOf(ym))) :
                DecisionsOf(o.path) = <<Remove(o.path)>>

(***************************************************************************)
(* C5                                                                      *)
(***************************************************************************)
\* the pass in which each basename removes at most one remaining expression
RECURSIVE OneToOnePass(_, _, _)
OneToOnePass(objects, k, regexps) ==
    IF k > Len(objects) THEN regexps
    ELSE OneToOnePass(objects, k + 1, ConsumeFirstMatch(regexps, 1, objects[k].basename))

\* every expected expression matches the basename of some object of the bucket
EveryPatternMatched(objects) ==
    \A i \in 1..Len(mpm_expect) :
        \E k \in 1..Len(objects) : RegexpTest(mpm_expect[i], objects[k].basename)

\* the buckets dayIsComplete was called for, each with what the call returned
TestedBuckets ==
    UNION {{<<TreeOf(ym)[d], CallOf(ym).tested[d]>> :
               d \in (DOMAIN CallOf(ym).tested) \cap (DOMAIN TreeOf(ym))} :
           ym \in MonthsOfTree}

\* C5 as stated: with a non-empty expected list, a day is complete if and
\* only if the pass in which each basename consumes at most one unmatched
\* expression leaves none unmatched.
C5_OneToOneAssignment ==
    (Decided /\ mpm_expect # << >>) =>
        \A t \in TestedBuckets : t[2] = (OneToOnePass(t[1], 1, mpm_expect) = << >>)

\* C5 as amended: with a non-empty expected list, a day is complete if and
\* only if every expected expression matches the basename of at least one
\* object of the day: a basename consumes every unmatched expression it
\* matches, so one 'a.log' satisfies two identical expressions matching it.
C5_EveryPatternMatchesSomeBasename ==
    (Decided /\ mpm_expect # << >>) =>
        \A t \in TestedBuckets : t[2] = EveryPatternMatched(t[1])

\* a day holding the single basename 'a.log' was tested against two identical
\* expressions matching it and found complete, and another day holding
\* objects was found not complete
C5_Witness ==
    /\ Decided
    /\ mpm_expect = <<ReA, ReA>>
    /\ \E t \in TestedBuckets : Len(t[1]) = 1 /\ t[1][1].basename = "a.log" /\ t[2]
    /\ \E t \in TestedBuckets : ~t[2]

(***************************************************************************)
(* C10                                                                     *)
(***************************************************************************)
NoDayMessage(ym) == MonthLabel(ym[1], ym[2]) \o ": missing objects from day 1"

\* C10: for every month that is not degraded, nwarn_noday1 is given once if
\* the first keep-day is not day 1 and not at all otherwise, nwarn_noday2 is
\* given once if the second keep-day is not day 15 and not at all otherwise,
\* and whatever warnings are given each object of the month has the one
\* decision its day calls for: skip on a keep-day, remove on any other day.
C10_DayWarnings ==
    Decided =>
        \A ym \in MonthsOfTree :
            LET tree == TreeOf(ym)
            IN  ~Degraded(tree) =>
                    /\ WarnCount("nwarn_noday1", NoDayMessage(ym))
                       = (IF Min(CompleteDays(tree, FirstHalf)) # 1 THEN 1 ELSE 0)
                    /\ WarnCount("nwarn_noday2", NoDayMessage(ym))
                       = (IF Min(CompleteDays(tree, SecondHalf)) # 15 THEN 1 ELSE 0)
                    /\ \A d \in DOMAIN tree : \A o \in Range(tree[d]) :
                          DecisionsOf(o.path) =
                              <<IF d \in KeepDays(tree) THEN SkipKeep(o.path)
                                                        ELSE Remove(o.path)>>

\* a month with objects on days 5 and 20 only has been decided: both warnings
\* were given; and a month with keep-days 1 and 20 got the second alone
C10_Witness ==
    /\ Decided
    /\ \E ym \in MonthsOfTree :
          /\ DOMAIN TreeOf(ym) = {5, 20}
          /\ ~Degraded(TreeOf(ym))
          /\ WarnCount("nwarn_noday1", NoDayMessage(ym)) = 1
          /\ WarnCount("nwarn_noday2", NoDayMessage(ym)) = 1

(***************************************************************************)
(* C2                                                                      *)
(***************************************************************************)
Paths(records) == {records[k].path : k \in 1..Len(records)}

\* C2: when the finder has yielded N objects, all with a timestamp, and ended,
\* and the decision phase has run, the engine has emitted exactly N records:
\* one for every path yielded, none twice, and none for any other path.
C2_OneDecisionPerRecord ==
    Decided =>
        /\ Len(ingested) = Len(found)
        /\ Len(emitted) = Len(found)
        /\ \A p \in Range(found) : Len(DecisionsOf(p)) = 1
        /\ Paths(emitted) \subseteq Range(found)

\* three objects of two years, two of them in the same day bucket and one on
\* day 31, have been decided
C2_Witness ==
    /\ Decided
    /\ Len(found) = 3
    /\ Cardinality(DOMAIN mpm_root) = 2
    /\ \E y \in DOMAIN mpm_root : \E m \in DOMAIN mpm_root[y] :
          31 \in DOMAIN mpm_root[y][m]
    /\ Len(emitted) = 3

(***************************************************************************)
(* C6                                                                      *)
(***************************************************************************)
\* the objects held in the bucket tree
ObjectsOfTree == UNION {ObjectsOn(TreeOf(ym), AllDays) : ym \in MonthsOfTree}

\* C6: for every object handed to the engine with a null timestamp, the
\* operation has emitted an error labelled 'policy' whose message names the
\* object's path, the object is not in the bucket tree, and no record, skip
\* or remove, has been emitted for its path; the engine has failed.
C6_NullTimestampIsFatal ==
    \A k \in 1..Len(ingested) :
        ingested[k].start = Null =>
            /\ policyState = "failed"
            /\ \E e \in Range(errors) :
                  e.label = "policy" /\ e.cause = NoBucketMessage(ingested[k].path)
            /\ \A o \in ObjectsOfTree : o.path # ingested[k].path
            /\ DecisionsOf(ingested[k].path) = << >>

\* the engine was handed an object with a null timestamp after it had put
\* another object into the tree, and the finder has ended since
C6_Witness ==
    /\ Len(ingested) >= 2
    /\ ingested[Len(ingested)].start = Null
    /\ ObjectsOfTree # {}
    /\ xformEnded
    /\ policyState = "failed"

(***************************************************************************)
(* C7                                                                      *)
(***************************************************************************)
\* C7: the engine emits records in one step only, the decision phase, which
\* is taken when mp_xform has ended and every object written to the engine
\* has been put into the tree, and is taken once; a step that ingests an
\* object emits nothing.
C7_NoDecisionBeforeEndOfInput ==
    [][/\ (emitted' # emitted =>
              /\ xformEnded
              /\ policyQ = << >>
              /\ Len(ingested) = Len(found)
              /\ emitted = << >>
              /\ policyState = "ingesting"
              /\ policyState' # "ingesting")
       /\ (ingested' # ingested => emitted' = emitted)
       /\ (policyState # "ingesting" => emitted' = emitted)]_vars

\* records have been emitted for three ingested objects
C7_Witness ==
    /\ Len(ingested) = 3
    /\ Len(emitted) = 3
    /\ policyState = "flushed"

(***************************************************************************)
(* C8                                                                      *)
(***************************************************************************)
\* the run has completed: the target has handled every decision and finished
Completed == targetState = "finished"

\* C8: at most one fatal error is emitted to the operation's caller, and a
\* run does not both complete and emit an error.
C8_SingleFatalError ==
    /\ Len(errors) <= 1
    /\ ~(Completed /\ errors # << >>)

(***************************************************************************)
(* C9                                                                      *)
(***************************************************************************)
\* C9: with dry-run off, every remove record the target has handled has had
\* its object removed from storage, a skip record leaves storage alone, and
\* the run does not fail in the 'remover' stage.
C9_RemoverAppliesDecisions ==
    ~mp_dryrun =>
        /\ \A k \in 1..targetPos :
              emitted[k].type = "remove" => emitted[k].path \in removed
        /\ removed \subseteq {emitted[k].path : k \in {j \in 1..targetPos :
                                                        emitted[j].type = "remove"}}
        /\ \A e \in Range(errors) : e.label # "remover"

(***************************************************************************)
(* C11                                                                     *)
(***************************************************************************)
\* the errors the operation has emitted under one label
ErrorsLabelled(label) == {k \in 1..Len(errors) : errors[k].label = label}

\* the paths the engine has been handed that have no timestamp
NullPaths == {ingested[k].path : k \in {j \in 1..Len(ingested) : ingested[j].start = Null}}

\* C11: every error the operation emits carries one of the three stage labels
\* and wraps the failure of the stage the label names: a failed finder is
\* reported once as 'finder', a failed engine once as 'policy', a failed target
\* once as 'remover', and a stage that has not failed is reported under no
\* label.
C11_FailuresKeepTheirStageLabel ==
    /\ \A e \in Range(errors) : e.label \in {"finder", "policy", "remover"}
    /\ Cardinality(ErrorsLabelled("finder")) = IF finderState = "failed" THEN 1 ELSE 0
    /\ Cardinality(ErrorsLabelled("policy")) = IF policyState = "failed" THEN 1 ELSE 0
    /\ Cardinality(ErrorsLabelled("remover")) = IF targetState = "failed" THEN 1 ELSE 0
    /\ \A k \in ErrorsLabelled("finder") : errors[k].cause = FinderCause
    /\ \A k \in ErrorsLabelled("policy") :
          \E path \in NullPaths : errors[k].cause = NoBucketMessage(path)
    /\ \A k \in ErrorsLabelled("remover") : errors[k].cause = RemoverCause

\* the finder and the engine have both failed, each reported under its label
C11_Witness ==
    /\ finderState = "failed"
    /\ policyState = "failed"
    /\ Len(errors) = 2
    /\ {errors[1].label, errors[2].label} = {"finder", "policy"}

(***************************************************************************)
(* C12                                                                     *)
(***************************************************************************)
\* C12: every record the engine has emitted is a 'remove' or a 'skip', has a
\* reason exactly when it is a 'skip', the reason being a non-empty string,
\* and passes validateRecord; no target has failed an assertion of
\* validateRecord on a record it was handed.
C12_DecisionsAreWellFormed ==
    /\ \A k \in 1..Len(emitted) :
          /\ emitted[k].type \in {"remove", "skip"}
          /\ ("reason" \in DOMAIN emitted[k]) <=> (emitted[k].type = "skip")
          /\ emitted[k].type = "skip" => emitted[k].reason # ""
          /\ validateRecord(emitted[k])
    /\ targetState # "threw"

\* the dry-run target has validated and printed a removal and a skip
C12_Witness ==
    /\ mp_dryrun
    /\ targetPos = Len(emitted)
    /\ Len(printed) = targetPos
    /\ \E j, k \in 1..targetPos : emitted[j].type = "remove" /\ emitted[k].type = "skip"

(***************************************************************************)
(* C13                                                                     *)
(***************************************************************************)
\* two names are the same but for the case of their letters
SameButForCase(a, b) ==
    /\ Len(a) = Len(b)
    /\ \A k \in 1..Len(a) :
          \/ a[k] = b[k]
          \/ a[k] \in DOMAIN UpperOf /\ UpperOf[a[k]] = b[k]
          \/ b[k] \in DOMAIN UpperOf /\ UpperOf[b[k]] = a[k]

\* C13: once policyForName has answered, the answer is the twice-monthly
\* engine if and only if the name is 'twicemonthly' but for the case of its
\* letters; for every other name it is the error 'unsupported policy: %s'
\* carrying the name as the caller gave it, and never an engine.
C13_PolicyForNameIsCaseInsensitive ==
    p_policy # Unresolved =>
        /\ (p_policy = MprunePolicyTwiceMonthly) <=> SameButForCase(p_name, Twicemonthly)
        /\ ~SameButForCase(p_name, Twicemonthly) =>
              p_policy = [message |-> "unsupported policy: %s", name |-> p_name]

\* a name written with capitals has resolved to the twice-monthly engine
C13_Witness ==
    /\ p_name = <<"T", "w", "i", "c", "e", "M", "o", "n", "t", "h", "l", "y">>
    /\ p_policy = MprunePolicyTwiceMonthly

(***************************************************************************)
(* C14                                                                     *)
(***************************************************************************)
\* the finder has yielded its last object and ended, every object it yielded
\* has a timestamp, and the target is the dry-run target
ValidInputEnded ==
    /\ mp_dryrun
    /\ finderState = "ended"
    /\ \A k \in 1..Len(found) : extractBeginTimeFor(found[k]) # Null

\* C14: with the dry-run target, once the finder has ended having yielded
\* only objects with a timestamp, the run eventually completes.  When the
\* decision phase has run, every (year, month) of the tree has been processed
\* exactly once; once the engine has signalled the end of its output it emits
\* nothing more, ingests nothing more and does not signal again; and the run
\* completes only when the target has handled the last decision.
C14_RunCompletes ==
    /\ ValidInputEnded ~> Completed
    /\ [](Decided =>
            /\ Len(processed) = Cardinality(MonthsOfTree)
            /\ {processed[k].label : k \in 1..Len(processed)}
                  = {MonthLabel(ym[1], ym[2]) : ym \in MonthsOfTree})
    /\ [](Completed => Decided /\ targetPos = Len(emitted))
    /\ [][policyState # "ingesting" =>
             /\ policyState' = policyState
             /\ emitted' = emitted
             /\ ingested' = ingested
             /\ processed' = processed]_vars

\* a run over three objects of two months has completed
C14_Witness ==
    /\ ValidInputEnded
    /\ Completed
    /\ Len(found) = 3
    /\ Len(processed) = 2
    /\ Len(printed) = 3

(***************************************************************************)
(* C15                                                                     *)
(***************************************************************************)
\* C15: for every month processed and every day of it, a day with no bucket
\* is not complete whatever the expected list, and so is a day whose bucket
\* is empty; with an empty expected list a day is complete if and only if its
\* bucket is present and holds an object.  The same holds of every result
\* the scans of processMonth obtained.
C15_PresenceDecidesWithoutPatterns ==
    Decided =>
        \A ym \in MonthsOfTree :
            LET tree == TreeOf(ym)
                tested == CallOf(ym).tested
            IN  /\ \A d \in AllDays :
                      LET complete == dayIsComplete(tree, d)
                      IN  /\ d \notin DOMAIN tree => ~complete
                          /\ d \in DOMAIN tree =>
                                ~dayIsComplete([tree EXCEPT ![d] = << >>], d)
                          /\ mpm_expect = << >> =>
                                (complete <=> (d \in DOMAIN tree /\ Len(tree[d]) > 0))
                /\ \A d \in DOMAIN tested :
                      /\ d \notin DOMAIN tree => ~tested[d]
                      /\ mpm_expect = << >> =>
                            (tested[d] <=> (d \in DOMAIN tree /\ Len(tree[d]) > 0))

\* with an empty expected list, the first scan found days 1 to 4 absent and
\* not complete, and day 5, which holds an object, complete
C15_Witness ==
    /\ Decided
    /\ mpm_expect = << >>
    /\ \E ym \in MonthsOfTree :
          /\ DOMAIN TreeOf(ym) = {5}
          /\ \A d \in 1..4 : ~CallOf(ym).tested[d]
          /\ CallOf(ym).tested[5]

(***************************************************************************)
(* C16                                                                     *)
(***************************************************************************)
\* C16: once the operation has emitted a fatal error, whichever stage it came
\* from, the engine ingests no further record, the decision phase does not
\* run and no record is emitted.
C16_FailureStopsTheEngine ==
    [][errors # << >> =>
          /\ ingested' = ingested
          /\ mpm_root' = mpm_root
          /\ processed' = processed
          /\ emitted' = emitted]_vars

(***************************************************************************)
(* C17                                                                     *)
(***************************************************************************)
\* the records a stage has passed on that the next stage has not yet taken
\* stay within the buffers of the two stages, each of highWaterMark records
QueuedFinderToXform == Len(xformQ)
QueuedXformToPolicy == Len(policyQ)
QueuedPolicyToTarget == Len(emitted) - targetPos

\* C17: whatever the number of records, no more than highWaterMark records
\* wait in the buffer of mp_xform, and no more than the two buffers on either
\* side hold wait between mp_xform and the engine or between the engine and
\* the target, also once the decision phase has emitted.
C17_QueuesStayWithinHighWaterMark ==
    /\ QueuedFinderToXform <= highWaterMark
    /\ QueuedXformToPolicy <= 2 * highWaterMark
    /\ QueuedPolicyToTarget <= 2 * highWaterMark

(***************************************************************************)
(* C18                                                                     *)
(***************************************************************************)
NoneInFirstHalf(ym) == MonthLabel(ym[1], ym[2]) \o ": no valid objects found in days 1-14"
NoneInSecondHalf(ym) == MonthLabel(ym[1], ym[2]) \o ": no valid objects found after day 15"

\* C18: for every month processed, both scans ran (day 1 and day 15 were both
\* tested), the nerr_missing warning for days 1-14 was given once if days
\* 1..14 hold no complete day and not at all otherwise, and likewise the one
\* for the days after day 15; these are all the nerr_missing warnings given.
C18_BothHalvesAreScanned ==
    Decided =>
        /\ \A ym \in MonthsOfTree :
              /\ {1, 15} \subseteq DOMAIN CallOf(ym).tested
              /\ WarnCount("nerr_missing", NoneInFirstHalf(ym))
                 = (IF CompleteDays(TreeOf(ym), FirstHalf) = {} THEN 1 ELSE 0)
              /\ WarnCount("nerr_missing", NoneInSecondHalf(ym))
                 = (IF CompleteDays(TreeOf(ym), SecondHalf) = {} THEN 1 ELSE 0)
        /\ \A w \in Range(warns) :
              w.kind = "nerr_missing" =>
                  \E ym \in MonthsOfTree :
                      w.message \in {NoneInFirstHalf(ym), NoneInSecondHalf(ym)}

\* one month got both warnings, another the second alone, in one pass
C18_Witness ==
    /\ Decided
    /\ \E ym \in MonthsOfTree :
          /\ WarnCount("nerr_missing", NoneInFirstHalf(ym)) = 1
          /\ WarnCount("nerr_missing", NoneInSecondHalf(ym)) = 1
    /\ \E ym \in MonthsOfTree :
          /\ WarnCount("nerr_missing", NoneInFirstHalf(ym)) = 0
          /\ WarnCount("nerr_missing", NoneInSecondHalf(ym)) = 1

(***************************************************************************)
(* C19                                                                     *)
(***************************************************************************)
\* how many times each element occurs in a sequence
BagOf(seq) == [x \in Range(seq) |-> Cardinality({k \in 1..Len(seq) : seq[k] = x})]

\* the objects ingested, had they arrived in the order p
Reordered(p) == [k \in 1..Len(ingested) |-> ingested[p[k]]]

\* what the decision phase does when the objects have arrived in the order p
CallsInOrder(p) == FlushCalls(IngestAll(EmptyNode, Reordered(p)))

\* the tree holding one month of mpm_root and nothing else
MonthAlone(ym) == [y \in {ym[1]} |-> [m \in {ym[2]} |-> TreeOf(ym)]]

\* the paths of the objects of a month
PathsOfMonth(ym) == {o.path : o \in ObjectsOn(TreeOf(ym), DOMAIN TreeOf(ym))}

\* C19: once the decision phase has run, the set of decision records (path,
\* type and reason) and the bag of warnings are those the decision phase
\* gives for every other order of arrival of the same objects, each path
\* being decided once in either; and the records of the objects of a month
\* are those the decision phase gives for that month alone.
C19_DecisionsIgnoreArrivalOrder ==
    Decided =>
        /\ \A p \in Permutations(1..Len(ingested)) :
              LET calls == CallsInOrder(p)
              IN  /\ Range(ConcatField(calls, "pushes")) = Range(emitted)
                  /\ Len(ConcatField(calls, "pushes")) = Len(emitted)
                  /\ BagOf(ConcatField(calls, "warns")) = BagOf(warns)
        /\ \A ym \in MonthsOfTree :
              {e \in Range(emitted) : e.path \in PathsOfMonth(ym)}
                  = Range(ConcatField(FlushCalls(MonthAlone(ym)), "pushes"))

\* decided: 'b.log' arrived on a day before 'a.log' did, an object of another
\* month between them, and the day was found complete for the expressions
\* '\.log$' and 'a\.log'
C19_Witness ==
    /\ Decided
    /\ mpm_expect = <<ReAny, ReA>>
    /\ Len(ingested) = 3
    /\ ingested[1].path.dir = <<2020, 7, 1>> /\ ingested[1].basename = "b.log"
    /\ ingested[2].path.dir = <<2020, 8, 1>>
    /\ ingested[3].path.dir = <<2020, 7, 1>> /\ ingested[3].basename = "a.log"
    /\ CallOf(<<2020, 7>>).tested[1]

(***************************************************************************)
(* C20                                                                     *)
(***************************************************************************)
\* what a test of a bucket against the whole of mpm_expect gives
AgainstFullList(tree, d) ==
    /\ d \in DOMAIN tree
    /\ tree[d] # << >>
    /\ EveryPatternMatched(tree[d])

\* C20: no step changes mpm_expect; and in the step of the decision phase the
\* tree is left as it was and every result a scan obtained from dayIsComplete,
\* however many tests came before it, is the result of testing the day against
\* the whole of mpm_expect.
C20_CompletenessTestLeavesItsInputs ==
    [][/\ mpm_expect' = mpm_expect
       /\ FlushReady =>
             /\ mpm_root' = mpm_root
             /\ \A k \in 1..Len(processed') :
                   LET pair == MonthsInOrder(mpm_root, SortedKeys(DOMAIN mpm_root))[k]
                       tree == mpm_root[pair[1]][pair[2]]
                   IN  \A d \in DOMAIN processed'[k].tested :
                           processed'[k].tested[d] = AgainstFullList(tree, d)]_vars

\* decided with the expressions '\.log$' and 'a\.log': day 1, holding only
\* 'b.log', was tested and found not complete, and a later day of the same
\* scan was then found complete
C20_Witness ==
    /\ Decided
    /\ mpm_expect = <<ReAny, ReA>>
    /\ \E ym \in MonthsOfTree :
          /\ 1 \in DOMAIN TreeOf(ym)
          /\ \A o \in Range(TreeOf(ym)[1]) : o.basename = "b.log"
          /\ ~CallOf(ym).tested[1]
          /\ \E d \in 2..14 : d \in DOMAIN CallOf(ym).tested /\ CallOf(ym).tested[d]

====
